---- MODULE Spec2Model ----
(***************************************************************************)
(* Model of src/src/spec-node/imageMetadata.ts: the build-strategy         *)
(* resolver (getImageBuildInfo), the devcontainer.metadata label codec     *)
(* (getDevcontainerMetadataLabel / internalGetImageMetadata) and the       *)
(* metadata projection (getDevcontainerMetadata / pick).                   *)
(*                                                                         *)
(* Text is a sequence of tokens.  A token is one special character         *)
(* (quote, backslash, dollar, brace, bracket, colon, comma, space, newline,*)
(* digit) or a run of ordinary characters written as one TLA+ string       *)
(* ("mounts", "true").  Every transformation of the source acts on the     *)
(* special characters only, so a run of ordinary characters is atomic.     *)
(* A JavaScript string is such a token sequence as well.                   *)
(***************************************************************************)
EXTENDS Integers, Sequences, FiniteSets, TLC

Quote == "\""
Backslash == "\\"
Dollar == "$"
Newline == "\n"
Space == " "
DigitTok == <<"0", "1", "2", "3", "4", "5", "6", "7", "8", "9">>
Digits == {DigitTok[i] : i \in 1..10}
Ws == {Space, Newline}

\* the concatenation of a sequence of sequences, by halves
RECURSIVE Flatten(_)
Flatten(ss) ==
    IF ss = <<>> THEN <<>>
    ELSE IF Len(ss) = 1 THEN ss[1]
    ELSE Flatten(SubSeq(ss, 1, Len(ss) \div 2))
         \o Flatten(SubSeq(ss, (Len(ss) \div 2) + 1, Len(ss)))

RECURSIVE Join(_, _)
Join(ss, sep) ==
    IF ss = <<>> THEN <<>>
    ELSE IF Len(ss) = 1 THEN ss[1]
    ELSE ss[1] \o sep \o Join(Tail(ss), sep)

Drop(s, n) == SubSeq(s, n + 1, Len(s))

Count(seq, x) == Cardinality({i \in DOMAIN seq : seq[i] = x})

(***************************************************************************)
(* JavaScript values that JSON can carry, tagged by kind.  An object is    *)
(* its property list in insertion order.                                   *)
(***************************************************************************)
JNull == [t |-> "null"]
JBool(b) == [t |-> "bool", b |-> b]
JNum(n) == [t |-> "num", n |-> n]
JStr(s) == [t |-> "str", s |-> s]
JArr(a) == [t |-> "arr", a |-> a]
JObj(props) == [t |-> "obj", props |-> props]
Prop(k, v) == [k |-> <<k>>, v |-> v]

\* key in obj
HasKey(obj, key) == \E i \in DOMAIN obj.props : obj.props[i].k = key
\* obj[key], for a key the object has
GetKey(obj, key) ==
    obj.props[CHOOSE i \in DOMAIN obj.props : obj.props[i].k = key].v
Keys(obj) == {obj.props[i].k : i \in DOMAIN obj.props}
\* res[key] = value
SetKey(obj, key, value) ==
    IF HasKey(obj, key)
    THEN JObj([i \in DOMAIN obj.props |->
                  IF obj.props[i].k = key THEN [k |-> key, v |-> value]
                  ELSE obj.props[i]])
    ELSE JObj(Append(obj.props, [k |-> key, v |-> value]))

(***************************************************************************)
(* JSON.parse: a recursive-descent reading of the token sequence.  Every   *)
(* parser returns [ok, v, rest]; ok = FALSE is the SyntaxError.            *)
(***************************************************************************)
ParseFail == [ok |-> FALSE]
ParseOk(v, rest) == [ok |-> TRUE, v |-> v, rest |-> rest]

RECURSIVE SkipWs(_)
SkipWs(s) == IF s # <<>> /\ Head(s) \in Ws THEN SkipWs(Tail(s)) ELSE s

RECURSIVE ParseChars(_, _)
ParseChars(s, acc) ==
    IF s = <<>> THEN ParseFail
    ELSE IF Head(s) = Quote THEN ParseOk(acc, Tail(s))
    ELSE IF Head(s) = Backslash THEN
        IF Len(s) < 2 THEN ParseFail
        ELSE IF s[2] \in {Quote, Backslash} THEN ParseChars(Drop(s, 2), Append(acc, s[2]))
        ELSE IF s[2] = "n" THEN ParseChars(Drop(s, 2), Append(acc, Newline))
        ELSE ParseFail
    ELSE IF Head(s) = Newline THEN ParseFail
    ELSE ParseChars(Tail(s), Append(acc, Head(s)))

DigitVal(d) == (CHOOSE i \in 1..10 : DigitTok[i] = d) - 1

RECURSIVE ParseDigits(_, _)
ParseDigits(s, n) ==
    IF s # <<>> /\ Head(s) \in Digits
    THEN ParseDigits(Tail(s), n * 10 + DigitVal(Head(s)))
    ELSE ParseOk(JNum(n), s)

ParseNumber(s) ==
    IF Head(s) = "0" THEN ParseOk(JNum(0), Tail(s)) ELSE ParseDigits(s, 0)

RECURSIVE ParseValue(_), ParseElements(_, _), ParseMembers(_, _)
ParseValue(s0) ==
    LET s == SkipWs(s0) IN
    IF s = <<>> THEN ParseFail
    ELSE IF Head(s) = "{" THEN
        IF SkipWs(Tail(s)) # <<>> /\ Head(SkipWs(Tail(s))) = "}"
        THEN ParseOk(JObj(<<>>), SkipWs(Tail(SkipWs(Tail(s)))))
        ELSE ParseMembers(Tail(s), JObj(<<>>))
    ELSE IF Head(s) = "[" THEN
        IF SkipWs(Tail(s)) # <<>> /\ Head(SkipWs(Tail(s))) = "]"
        THEN ParseOk(JArr(<<>>), SkipWs(Tail(SkipWs(Tail(s)))))
        ELSE ParseElements(Tail(s), <<>>)
    ELSE IF Head(s) = Quote THEN
        LET r == ParseChars(Tail(s), <<>>) IN
        IF r.ok THEN ParseOk(JStr(r.v), SkipWs(r.rest)) ELSE ParseFail
    ELSE IF Head(s) = "true" THEN ParseOk(JBool(TRUE), SkipWs(Tail(s)))
    ELSE IF Head(s) = "false" THEN ParseOk(JBool(FALSE), SkipWs(Tail(s)))
    ELSE IF Head(s) = "null" THEN ParseOk(JNull, SkipWs(Tail(s)))
    ELSE IF Head(s) \in Digits THEN
        LET r == ParseNumber(s) IN ParseOk(r.v, SkipWs(r.rest))
    ELSE ParseFail

\* after "[" or ",": value, then "," or "]"
ParseElements(s, acc) ==
    LET r == ParseValue(s) IN
    IF ~r.ok \/ r.rest = <<>> THEN ParseFail
    ELSE IF Head(r.rest) = "," THEN ParseElements(Tail(r.rest), Append(acc, r.v))
    ELSE IF Head(r.rest) = "]" THEN ParseOk(JArr(Append(acc, r.v)), SkipWs(Tail(r.rest)))
    ELSE ParseFail

\* after "{" or ",": string, ":", value, then "," or "}"
ParseMembers(s0, obj) ==
    LET s == SkipWs(s0) IN
    IF s = <<>> \/ Head(s) # Quote THEN ParseFail
    ELSE LET k == ParseChars(Tail(s), <<>>) IN
         IF ~k.ok THEN ParseFail
         ELSE LET c == SkipWs(k.rest) IN
              IF c = <<>> \/ Head(c) # ":" THEN ParseFail
              ELSE LET r == ParseValue(Tail(c)) IN
                   IF ~r.ok \/ r.rest = <<>> THEN ParseFail
                   ELSE IF Head(r.rest) = ","
                        THEN ParseMembers(Tail(r.rest), SetKey(obj, k.v, r.v))
                   ELSE IF Head(r.rest) = "}"
                        THEN ParseOk(SetKey(obj, k.v, r.v), SkipWs(Tail(r.rest)))
                   ELSE ParseFail

JSONparse(str) ==
    LET r == ParseValue(str) IN
    IF r.ok /\ r.rest = <<>> THEN [ok |-> TRUE, v |-> r.v] ELSE ParseFail

(***************************************************************************)
(* JSON.stringify, compact form.                                           *)
(***************************************************************************)
QuoteJson(s) ==
    Flatten([i \in DOMAIN s |->
                IF s[i] \in {Quote, Backslash} THEN <<Backslash, s[i]>>
                ELSE IF s[i] = Newline THEN <<Backslash, "n">>
                ELSE <<s[i]>>])

RECURSIVE NumText(_)
NumText(n) ==
    IF n < 10 THEN <<DigitTok[n + 1]>>
    ELSE NumText(n \div 10) \o <<DigitTok[(n % 10) + 1]>>

RECURSIVE JSONstringify(_)
JSONstringify(v) ==
    IF v.t = "null" THEN <<"null">>
    ELSE IF v.t = "bool" THEN (IF v.b THEN <<"true">> ELSE <<"false">>)
    ELSE IF v.t = "num" THEN NumText(v.n)
    ELSE IF v.t = "str" THEN <<Quote>> \o QuoteJson(v.s) \o <<Quote>>
    ELSE IF v.t = "arr"
    THEN <<"[">> \o Join([i \in DOMAIN v.a |-> JSONstringify(v.a[i])], <<",">>) \o <<"]">>
    ELSE <<"{">>
         \o Join([i \in DOMAIN v.props |->
                     <<Quote>> \o QuoteJson(v.props[i].k) \o <<Quote, ":">>
                     \o JSONstringify(v.props[i].v)], <<",">>)
         \o <<"}">>

(***************************************************************************)
(* JavaScript truthiness and typeof, as the conditions of the source use   *)
(* them.  Undefined is the value of a missing property.                    *)
(***************************************************************************)
Undefined == [t |-> "undefined"]

Truthy(v) ==
    IF v.t \in {"undefined", "null"} THEN FALSE
    ELSE IF v.t = "bool" THEN v.b
    ELSE IF v.t = "num" THEN v.n # 0
    ELSE IF v.t = "str" THEN v.s # <<>>
    ELSE TRUE

TypeofObject(v) == v.t \in {"null", "arr", "obj"}

IsArray(v) == v.t = "arr"

\* obj[key]: undefined when the object has no such property
Member(obj, key) == IF HasKey(obj, key) THEN GetKey(obj, key) ELSE Undefined

\* a || b and a && b
Or(a, b) == IF Truthy(a) THEN a ELSE b
And(a, b) == IF Truthy(a) THEN b ELSE a

Strs(names) == [i \in DOMAIN names |-> <<names[i]>>]

(***************************************************************************)
(* The allow-lists.                                                        *)
(***************************************************************************)
pickConfigProperties ==
    Strs(<<"onCreateCommand", "updateContentCommand", "postCreateCommand",
           "postStartCommand", "postAttachCommand", "waitFor", "customizations",
           "remoteUser", "userEnvProbe", "remoteEnv", "overrideCommand",
           "portsAttributes", "otherPortsAttributes", "forwardPorts",
           "shutdownAction", "updateRemoteUserUID", "hostRequirements">>)

pickSingleContainerConfigProperties ==
    Strs(<<"mounts", "containerUser", "containerEnv">>) \o pickConfigProperties

pickFeatureProperties ==
    Strs(<<"id", "init", "privileged", "capAdd", "securityOpt", "entrypoint",
           "mounts", "customizations">>)

\* keys.reduce((res, key) => { if (key in obj) res[key] = obj[key]; return res; }, {})
RECURSIVE pickReduce(_, _, _)
pickReduce(obj, keys, res) ==
    IF keys = <<>> THEN res
    ELSE pickReduce(obj, Tail(keys),
                    IF HasKey(obj, Head(keys))
                    THEN SetKey(res, Head(keys), GetKey(obj, Head(keys)))
                    ELSE res)

pick(obj, keys) == pickReduce(obj, keys, JObj(<<>>))

(***************************************************************************)
(* featuresConfig is a Feature[] (a JArr) or a FeaturesConfig, an object   *)
(* whose featureSets is an array of objects with a features array.         *)
(***************************************************************************)
FeaturesOf(featuresConfig) ==
    IF IsArray(featuresConfig) THEN featuresConfig.a
    ELSE LET sets == GetKey(featuresConfig, <<"featureSets">>).a IN
         Flatten([i \in DOMAIN sets |-> GetKey(sets[i], <<"features">>).a])

\* variant: the two allow-lists are swapped
ConfigEntrySwapped(devContainerConfig) ==
    IF HasKey(devContainerConfig, <<"dockerComposeFile">>)
    THEN pick(devContainerConfig, pickSingleContainerConfigProperties)
    ELSE pick(devContainerConfig, pickConfigProperties)

ConfigEntry(devContainerConfig) ==
    IF HasKey(devContainerConfig, <<"dockerComposeFile">>)
    THEN pick(devContainerConfig, pickConfigProperties)
    ELSE pick(devContainerConfig, pickSingleContainerConfigProperties)

getDevcontainerMetadata(devContainerConfig, featuresConfig) ==
    LET features == FeaturesOf(featuresConfig) IN
    [i \in DOMAIN features |-> pick(features[i], pickFeatureProperties)]
    \o <<ConfigEntry(devContainerConfig)>>

(***************************************************************************)
(* The label codec.                                                        *)
(***************************************************************************)
imageMetadataLabel == <<"devcontainer.metadata">>

\* variant: the backslash is left out of the character class
InsertBackslashNoBackslash(s) ==
    Flatten([i \in DOMAIN s |->
                IF s[i] \in {Quote, Dollar} THEN <<Backslash, s[i]>>
                ELSE <<s[i]>>])

\* .replace(/(?=["\\$])/g, '\\'): a backslash goes in before each match
InsertBackslash(s) ==
    Flatten([i \in DOMAIN s |->
                IF s[i] \in {Quote, Backslash, Dollar} THEN <<Backslash, s[i]>>
                ELSE <<s[i]>>])

toLabelString(obj) == InsertBackslash(JSONstringify(obj))

\* variant: the current layer's entries come first
LabelMetadataCurrentFirst(baseImageMetadata, devContainerConfig, featuresConfig) ==
    getDevcontainerMetadata(devContainerConfig, featuresConfig) \o baseImageMetadata

\* the local `metadata` of getDevcontainerMetadataLabel
LabelMetadata(baseImageMetadata, devContainerConfig, featuresConfig) ==
    baseImageMetadata \o getDevcontainerMetadata(devContainerConfig, featuresConfig)

LabelValue(metadata) ==
    IF Len(metadata) # 1
    THEN <<"[">>
         \o Join([i \in DOMAIN metadata |->
                     <<Space, Backslash, Newline>> \o toLabelString(metadata[i])],
                 <<",">>)
         \o <<Space, Backslash, Newline, "]">>
    ELSE toLabelString(metadata[1])

LabelPrefix == <<"LABEL", Space>> \o imageMetadataLabel \o <<"=", Quote>>

getDevcontainerMetadataLabel(baseImageMetadata, devContainerConfig, featuresConfig, experimentalImageMetadata) ==
    IF ~experimentalImageMetadata THEN <<>>
    ELSE LET metadata == LabelMetadata(baseImageMetadata, devContainerConfig, featuresConfig) IN
         IF Len(metadata) = 0 THEN <<>>
         ELSE LabelPrefix \o LabelValue(metadata) \o <<Quote>>

\* (imageDetails.Config.Labels || {})[imageMetadataLabel]
LabelOf(details) ==
    Member(Or(Member(Member(details, <<"Config">>), <<"Labels">>), JObj(<<>>)),
           imageMetadataLabel)

\* The result and the messages handed to output.write, in order.
Decoded(metadata, writes) == [metadata |-> metadata, writes |-> writes]

\* variant: typeof obj === 'object' without the null check
internalGetImageMetadataNoNullCheck(imageDetails, experimentalImageMetadata) ==
    IF ~experimentalImageMetadata THEN Decoded(<<>>, <<>>)
    ELSE LET str == LabelOf(imageDetails) IN
         IF Truthy(str)
         THEN LET obj == JSONparse(str.s) IN
              IF ~obj.ok
              THEN Decoded(<<>>, <<[msg |-> "Error parsing image metadata", str |-> str.s]>>)
              ELSE IF IsArray(obj.v) THEN Decoded(obj.v.a, <<>>)
              ELSE IF TypeofObject(obj.v) THEN Decoded(<<obj.v>>, <<>>)
              ELSE Decoded(<<>>, <<[msg |-> "Invalid image metadata", str |-> str.s]>>)
         ELSE Decoded(<<>>, <<>>)

\* variant: array elements that are no objects are dropped
IsObjectEntry(e) == e.t = "obj"

internalGetImageMetadataValidating(imageDetails, experimentalImageMetadata) ==
    IF ~experimentalImageMetadata THEN Decoded(<<>>, <<>>)
    ELSE LET str == LabelOf(imageDetails) IN
         IF Truthy(str)
         THEN LET obj == JSONparse(str.s) IN
              IF ~obj.ok
              THEN Decoded(<<>>, <<[msg |-> "Error parsing image metadata", str |-> str.s]>>)
              ELSE IF IsArray(obj.v)
              THEN Decoded(SelectSeq(obj.v.a, IsObjectEntry), <<>>)
              ELSE IF Truthy(obj.v) /\ TypeofObject(obj.v) THEN Decoded(<<obj.v>>, <<>>)
              ELSE Decoded(<<>>, <<[msg |-> "Invalid image metadata", str |-> str.s]>>)
         ELSE Decoded(<<>>, <<>>)

internalGetImageMetadata(imageDetails, experimentalImageMetadata) ==
    IF ~experimentalImageMetadata THEN Decoded(<<>>, <<>>)
    ELSE LET str == LabelOf(imageDetails) IN
         IF Truthy(str)
         THEN LET obj == JSONparse(str.s) IN
              IF ~obj.ok
              THEN Decoded(<<>>, <<[msg |-> "Error parsing image metadata", str |-> str.s]>>)
              ELSE IF IsArray(obj.v) THEN Decoded(obj.v.a, <<>>)
              ELSE IF Truthy(obj.v) /\ TypeofObject(obj.v) THEN Decoded(<<obj.v>>, <<>>)
              ELSE Decoded(<<>>, <<[msg |-> "Invalid image metadata", str |-> str.s]>>)
         ELSE Decoded(<<>>, <<>>)

getImageMetadata(imageDetails, experimentalImageMetadata) ==
    internalGetImageMetadata(imageDetails, experimentalImageMetadata)

getImageMetadataFromContainer(containerDetails, devContainerConfig, featuresConfig, experimentalImageMetadata) ==
    IF ~experimentalImageMetadata
    THEN Decoded(getDevcontainerMetadata(devContainerConfig, featuresConfig), <<>>)
    ELSE internalGetImageMetadata(containerDetails, experimentalImageMetadata)

(***************************************************************************)
(* What the image build does with the emitted instruction                  *)
(*   LABEL devcontainer.metadata="<value>"                                 *)
(* to obtain the label value an inspection reports: the backslash before a *)
(* double quote, backslash or dollar sign goes, and so does each           *)
(* line-continuation marker (backslash, newline).                          *)
(***************************************************************************)
\* the backslashes right before position i
RECURSIVE BackslashesBefore(_, _)
BackslashesBefore(s, i) ==
    IF i > 1 /\ s[i - 1] = Backslash THEN 1 + BackslashesBefore(s, i - 1) ELSE 0

\* the backslash at i escapes the character after it: it is not itself escaped
Escapes(s, i) ==
    /\ s[i] = Backslash
    /\ i < Len(s)
    /\ s[i + 1] \in {Quote, Backslash, Dollar, Newline}
    /\ BackslashesBefore(s, i) % 2 = 0

RemoveEscaping(s) ==
    Flatten([i \in DOMAIN s |->
                IF Escapes(s, i) THEN <<>>
                ELSE IF s[i] = Newline /\ i > 1 /\ Escapes(s, i - 1) THEN <<>>
                ELSE <<s[i]>>])

\* the labels of the image built from a Dockerfile holding `instruction`
BuiltLabels(instruction) ==
    IF instruction = <<>> THEN JObj(<<>>)
    ELSE JObj(<<[k |-> imageMetadataLabel,
                 v |-> JStr(RemoveEscaping(
                          SubSeq(instruction, Len(LabelPrefix) + 1, Len(instruction) - 1)))]>>)

(***************************************************************************)
(* Inputs of the label operations.                                         *)
(***************************************************************************)
MaxBase == 2
MaxFeatures == 1

RECURSIVE SeqsUpTo(_, _)
SeqsUpTo(S, n) ==
    IF n = 0 THEN {<<>>}
    ELSE SeqsUpTo(S, n - 1) \cup
         {Append(q, e) : q \in {r \in SeqsUpTo(S, n - 1) : Len(r) = n - 1}, e \in S}

TextPlain == <<"vscode">>
TextShell == <<"echo", Space, Quote, Dollar, "HOME", Quote>>
TextSlash == <<"C:", Backslash, "n", Newline, Backslash>>

\* entries of a base image: any JSON objects, unknown keys included
EntryPool ==
    { JObj(<<Prop("id", JStr(TextPlain)), Prop("init", JBool(TRUE)),
             Prop("future", JArr(<<JNum(10), JNull>>))>>),
      JObj(<<Prop("postCreateCommand", JStr(TextShell)),
             Prop("remoteEnv", JObj(<<Prop("P", JStr(TextSlash))>>))>>) }

BaseMetadataPool == SeqsUpTo(EntryPool, MaxBase)

FeaturePool ==
    { JObj(<<Prop("id", JStr(<<"git">>)), Prop("version", JStr(<<"1">>)),
             Prop("init", JBool(TRUE)),
             Prop("mounts", JArr(<<JStr(<<"source=", Dollar, "HOME">>)>>))>>),
      JObj(<<Prop("id", JStr(<<"go">>)), Prop("privileged", JBool(FALSE)),
             Prop("containerEnv", JObj(<<Prop("GOPATH", JStr(<<"/go">>))>>)),
             Prop("customizations", JObj(<<Prop("vscode", JObj(<<>>))>>))>>) }

FeatureSet(fs) == JObj(<<Prop("features", JArr(fs))>>)

\* a Feature[], or a FeaturesConfig with one feature set per feature
FeaturesConfigPool ==
    LET seqs == SeqsUpTo(FeaturePool, MaxFeatures) IN
    {JArr(fs) : fs \in seqs}
    \cup {JObj(<<Prop("featureSets", JArr([i \in DOMAIN fs |-> FeatureSet(<<fs[i]>>)]))>>) :
             fs \in seqs}

OptionalProps ==
    <<Prop("mounts", JArr(<<JStr(<<"type=bind,source=", Dollar, "HOME">>)>>)),
      Prop("containerUser", JStr(<<"root">>)),
      Prop("containerEnv", JObj(<<Prop("PS1", JStr(<<Backslash, "w", Dollar>>))>>))>>

RECURSIVE SelectProps(_, _)
SelectProps(props, chosen) ==
    IF props = <<>> THEN <<>>
    ELSE (IF Head(props).k \in chosen THEN <<Head(props)>> ELSE <<>>)
         \o SelectProps(Tail(props), chosen)

ImageShape == <<Prop("image", JStr(<<"ubuntu">>))>>
ComposeShape ==
    <<Prop("dockerComposeFile", JStr(<<"docker-compose.yml">>)),
      Prop("service", JStr(<<"app">>))>>

ConfigOf(shape, chosen) ==
    JObj(<<Prop("name", JStr(<<"dev">>))>> \o shape
         \o <<Prop("remoteUser", JStr(TextPlain)),
              Prop("postCreateCommand", JStr(TextShell))>>
         \o SelectProps(OptionalProps, chosen))

OptionalKeys == {OptionalProps[i].k : i \in DOMAIN OptionalProps}

\* compose-backed configs with any of the optional properties, single-container
\* configs with none and with all of them
ConfigPool ==
    {ConfigOf(ComposeShape, chosen) : chosen \in SUBSET OptionalKeys}
    \cup {ConfigOf(ImageShape, chosen) : chosen \in {{}, OptionalKeys}}

(***************************************************************************)
(* Collaborators of the resolver and their answers.                        *)
(***************************************************************************)
\* cliHost.isFile is asynchronous: a call yields a promise of the answer
cliHostIsFile(exists) == [t |-> "promise", value |-> JBool(exists)]
Await(promise) == promise.value

isDockerFileConfig(config) ==
    \/ HasKey(config, <<"dockerFile">>)
    \/ /\ HasKey(config, <<"build">>)
       /\ HasKey(GetKey(config, <<"build">>), <<"dockerfile">>)

getDockerfilePath(config) ==
    <<"/workspace/.devcontainer/">>
    \o (IF HasKey(config, <<"dockerFile">>) THEN GetKey(config, <<"dockerFile">>).s
        ELSE GetKey(GetKey(config, <<"build">>), <<"dockerfile">>).s)

uriToWSLFsPath(uri) == uri

\* the argument of the last `keyword` instruction of the Dockerfile
RECURSIVE LastArgument(_, _, _)
LastArgument(dockerfile, keyword, found) ==
    IF dockerfile = <<>> THEN found
    ELSE IF Len(dockerfile) >= 3 /\ dockerfile[1] = keyword /\ dockerfile[2] = Space
    THEN LastArgument(Drop(dockerfile, 3), keyword, JStr(<<dockerfile[3]>>))
    ELSE LastArgument(Tail(dockerfile), keyword, found)

findUserStatement(dockerfile) == LastArgument(dockerfile, "USER", Undefined)
findBaseImage(dockerfile) == LastArgument(dockerfile, "FROM", Undefined)

getDockerComposeFilePaths(config) ==
    LET f == GetKey(config, <<"dockerComposeFile">>) IN
    IF IsArray(f)
    THEN (IF Len(f.a) = 0 THEN <<JStr(<<"/workspace/docker-compose.yml">>)>> ELSE f.a)
    ELSE <<f>>

getBuildInfoForService(composeService) ==
    IF HasKey(composeService, <<"build">>)
    THEN JObj(<<[k |-> <<"image">>, v |-> Member(composeService, <<"image">>)],
                [k |-> <<"build">>,
                 v |-> JObj(<<Prop("context", JStr(<<"/workspace">>)),
                              Prop("dockerfilePath", JStr(<<"Dockerfile">>))>>)]>>)
    ELSE JObj(<<[k |-> <<"image">>, v |-> Member(composeService, <<"image">>)]>>)

DockerfilePool ==
    { <<>>,
      <<"FROM", Space, "debian">>,
      <<"FROM", Space, "debian", Newline, "USER", Space, "alice">>,
      <<"USER", Space, "alice">> }

\* label values an inspected image can carry
LabelTextPool ==
    { <<>>,
      <<"not json">>,
      <<Space>>,
      <<"4", "2">>,
      <<"0">>,
      <<"null">>,
      <<"true">>,
      <<"false">>,
      <<Quote, "str", Quote>>,
      <<Quote, Quote>>,
      <<"{", Quote, "init", Quote, ":", "true", "}">>,
      <<"{", "}">>,
      <<"[", "{", Quote, "a", Quote, ":", "1", "}", ",",
        "{", Quote, "b", Quote, ":", "2", "}", "]">>,
      <<"[", "]">>,
      <<"[", "1", ",", Quote, "x", Quote, ",", "null", "]">>,
      <<"{", Backslash, Quote, "init", Backslash, Quote, ":", "true", "}">> }

LabelsPool ==
    {JNull, JObj(<<>>)}
    \cup {JObj(<<[k |-> imageMetadataLabel, v |-> JStr(text)]>>) : text \in LabelTextPool}

ImageDetailsPool ==
    { JObj(<<Prop("Config", JObj(<<Prop("User", user), Prop("Labels", labels)>>))>>) :
        user \in {JStr(<<>>), JStr(<<"bob">>)}, labels \in LabelsPool }

Rejected == [ok |-> FALSE]
Resolved(v) == [ok |-> TRUE, v |-> v]

InspectOutcomes == {Rejected} \cup {Resolved(d) : d \in ImageDetailsPool}

ServiceWithBuild == JObj(<<Prop("build", JObj(<<Prop("context", JStr(<<".">>))>>))>>)
ServiceWithImage(name) == JObj(<<Prop("image", JStr(<<name>>))>>)

ComposeConfigPool ==
    { JObj(<<>>),
      JObj(<<Prop("services", JNull)>>),
      JObj(<<Prop("services", JObj(<<Prop("app", ServiceWithBuild)>>))>>),
      JObj(<<Prop("services", JObj(<<Prop("app", ServiceWithImage("ubuntu")),
                                     Prop("db", ServiceWithImage("postgres"))>>))>>),
      JObj(<<Prop("services", JObj(<<Prop("web", ServiceWithImage("nginx"))>>))>>) }

ComposeOutcomes == {Rejected} \cup {Resolved(c) : c \in ComposeConfigPool}

ResolverConfigPool ==
    { JObj(<<Prop("build", JObj(<<Prop("dockerfile", JStr(<<"Dockerfile">>))>>))>>),
      JObj(<<Prop("dockerFile", JStr(<<"Dockerfile.dev">>))>>),
      JObj(<<Prop("image", JStr(<<"ubuntu">>))>>) }
    \cup { JObj(<<Prop("dockerComposeFile", files), Prop("service", JStr(<<service>>))>>) :
             files \in {JArr(<<>>), JArr(<<JStr(<<"docker-compose.yml">>)>>),
                        JStr(<<"docker-compose.yml">>)},
             service \in {"app", "db"} }

(***************************************************************************)
(* Pieces of the resolver.                                                 *)
(***************************************************************************)
DockerfileNotFound(dockerfilePath) ==
    [type |-> "ContainerError",
     text |-> <<"Dockerfile (">> \o dockerfilePath \o <<") not found.">>]

ServiceNotFound(service) ==
    [type |-> "Error",
     text |-> <<"Service '">> \o service
              \o <<"' configured in devcontainer.json not found in Docker Compose configuration.">>]

CollaboratorError(name) == [type |-> "collaborator", text |-> <<name>>]

\* if (!cliHost.isFile(dockerfilePath))
DockerfileMissing(isFile) == ~Truthy(isFile)

\* Object.keys(composeConfig.services || {})
ServiceNames(composeConfig) ==
    LET services == Or(Member(composeConfig, <<"services">>), JObj(<<>>)) IN
    [i \in DOMAIN services.props |-> services.props[i].k]

\* variant: !services.indexOf(config.service)
ServiceMissingNegatedIndex(composeConfig, config) ==
    LET services == ServiceNames(composeConfig) IN
    services # <<>> /\ services[1] = GetKey(config, <<"service">>).s

\* services.indexOf(config.service) === -1
ServiceMissing(composeConfig, config) ==
    LET services == ServiceNames(composeConfig) IN
    ~\E i \in DOMAIN services : services[i] = GetKey(config, <<"service">>).s

\* composeConfig.services[config.service]; reading a property of undefined or
\* null is a TypeError, as is handing undefined on as the service
TypeError == [type |-> "TypeError", text |-> <<>>]

ComposeService(composeConfig, config) ==
    LET services == Member(composeConfig, <<"services">>) IN
    IF services.t = "obj" THEN Member(services, GetKey(config, <<"service">>).s)
    ELSE Undefined

\* imageDetails?.Config.User
OptionalUser(imageDetails) ==
    IF imageDetails.t \in {"undefined", "null"} THEN Undefined
    ELSE Member(Member(imageDetails, <<"Config">>), <<"User">>)

Root == JStr(<<"root">>)

\* variant: the image's user takes precedence over the Dockerfile's
DockerfileEffectiveUserImageFirst(dockerfileUser, imageDetails) ==
    Or(Or(OptionalUser(imageDetails), dockerfileUser), Root)

\* const user = dockerfileUser || imageDetails?.Config.User || 'root'
DockerfileEffectiveUser(dockerfileUser, imageDetails) ==
    Or(Or(dockerfileUser, OptionalUser(imageDetails)), Root)

\* const user = imageDetails.Config.User || 'root'
ImageEffectiveUser(imageDetails) ==
    Or(Member(Member(imageDetails, <<"Config">>), <<"User">>), Root)

\* variant: the base image's label is not read
DockerfileMetadataIgnoringBase(imageDetails, experimentalImageMetadata) ==
    Decoded(<<>>, <<>>)

\* const metadata = imageDetails ? getImageMetadata(...) : []
DockerfileMetadata(imageDetails, experimentalImageMetadata) ==
    IF Truthy(imageDetails) THEN getImageMetadata(imageDetails, experimentalImageMetadata)
    ELSE Decoded(<<>>, <<>>)

WriteCalls(writes) == [i \in DOMAIN writes |-> "output.write"]

(***************************************************************************)
(* State.  One getImageBuildInfo call: its arguments, its position (the    *)
(* await it is suspended at), its locals, the collaborator calls made so   *)
(* far in order, and how it ended.  And the label operations: their        *)
(* arguments and what each returned.                                       *)
(***************************************************************************)
VARIABLES
    config,                     \* getImageBuildInfo's config
    experimentalImageMetadata,  \* getImageBuildInfo's flag
    pc,                         \* "start", the awaited call, "done", "failed"
    calls,                      \* collaborator calls, in order
    dockerfilePath,             \* the computed Dockerfile path
    dockerfileIsFile,           \* what isFile reports of dockerfilePath
    dockerfile,                 \* the Dockerfile text read
    envFile,
    composeFiles,
    composeConfig,
    imageDetails,               \* the inspection's result
    result,                     \* the ImageBuildInfo returned
    error,                      \* the error thrown
    written,                    \* messages given to output.write
    baseImageMetadata,          \* arguments of the label operations
    devContainerConfig,
    featuresConfig,
    labelFlag,
    lpc,                        \* the label operation that ran last
    current,                    \* getDevcontainerMetadata's result
    labelMetadata,              \* the local `metadata` of getDevcontainerMetadataLabel
    label,                      \* getDevcontainerMetadataLabel's result
    builtLabels,                \* the labels of the image built with `label`
    decoded                     \* getImageMetadataFromContainer's result

resolverVars ==
    <<config, experimentalImageMetadata, pc, calls, dockerfilePath, dockerfileIsFile,
      dockerfile, envFile, composeFiles, composeConfig, imageDetails, result, error,
      written>>

labelVars ==
    <<baseImageMetadata, devContainerConfig, featuresConfig, labelFlag, lpc, current,
      labelMetadata, label, builtLabels, decoded>>

vars == <<resolverVars, labelVars>>

NoResult == [user |-> Undefined, metadata |-> <<>>, imageDetails |-> Undefined]
NoError == [type |-> "none", text |-> <<>>]

ResolverIdle ==
    /\ calls = <<>>
    /\ dockerfilePath = <<>>
    /\ dockerfileIsFile = Undefined
    /\ dockerfile = Undefined
    /\ envFile = Undefined
    /\ composeFiles = <<>>
    /\ composeConfig = Undefined
    /\ imageDetails = Undefined
    /\ result = NoResult
    /\ error = NoError
    /\ written = <<>>

LabelIdle ==
    /\ current = <<>>
    /\ labelMetadata = <<>>
    /\ label = <<>>
    /\ builtLabels = Undefined
    /\ decoded = Decoded(<<>>, <<>>)

\* a call of getImageBuildInfo is about to run
Init ==
    /\ config \in ResolverConfigPool
    /\ experimentalImageMetadata \in BOOLEAN
    /\ pc = "start"
    /\ ResolverIdle
    /\ baseImageMetadata = <<>>
    /\ devContainerConfig = JObj(<<>>)
    /\ featuresConfig = JArr(<<>>)
    /\ labelFlag = FALSE
    /\ lpc = "off"
    /\ LabelIdle

Fail(e) ==
    /\ error' = e
    /\ pc' = "failed"
    /\ UNCHANGED result

Return(user, md, details) ==
    /\ result' = [user |-> user, metadata |-> md.metadata, imageDetails |-> details]
    /\ written' = written \o md.writes
    /\ pc' = "done"
    /\ UNCHANGED error

(***************************************************************************)
(* getImageBuildInfo, one action per stretch between two awaits.           *)
(***************************************************************************)
\* lines 112-115, up to the await of uriToWSLFsPath
StartDockerfile ==
    /\ pc = "start"
    /\ isDockerFileConfig(config)
    /\ dockerfilePath' = uriToWSLFsPath(getDockerfilePath(config))
    /\ calls' = calls \o <<"getDockerfilePath", "uriToWSLFsPath">>
    /\ pc' = "uriToWSLFsPath"
    /\ UNCHANGED <<config, experimentalImageMetadata, dockerfileIsFile, dockerfile, envFile,
                   composeFiles, composeConfig, imageDetails, result, error, written>>
    /\ UNCHANGED labelVars

\* lines 116-119, up to the await of readFile
AfterUriToWSLFsPath ==
    /\ pc = "uriToWSLFsPath"
    /\ \E exists \in BOOLEAN :
         LET isFile == cliHostIsFile(exists) IN
         /\ dockerfileIsFile' = Await(isFile)
         /\ IF DockerfileMissing(isFile)
            THEN /\ Fail(DockerfileNotFound(dockerfilePath))
                 /\ calls' = calls \o <<"isFile">>
            ELSE /\ calls' = calls \o <<"isFile", "readFile">>
                 /\ pc' = "readFile"
                 /\ UNCHANGED <<result, error>>
    /\ UNCHANGED <<config, experimentalImageMetadata, dockerfilePath, dockerfile, envFile,
                   composeFiles, composeConfig, imageDetails, written>>
    /\ UNCHANGED labelVars

\* the texts readFile can resolve with; it rejects for a path that is no file
ReadOutcomes ==
    IF dockerfileIsFile = JBool(FALSE) THEN {Rejected}
    ELSE IF dockerfileIsFile = JBool(TRUE) THEN {Resolved(t) : t \in DockerfilePool}
    ELSE {Rejected} \cup {Resolved(t) : t \in DockerfilePool}

\* lines 119-120 and 140-141, then 165-174 up to the await of the inspection
AfterReadFile ==
    /\ pc = "readFile"
    /\ \E out \in ReadOutcomes :
         IF ~out.ok
         THEN /\ Fail(CollaboratorError("readFile"))
              /\ UNCHANGED <<calls, dockerfile, imageDetails, written>>
         ELSE LET dockerfileUser == findUserStatement(out.v)
                  baseImage == findBaseImage(out.v) IN
              /\ dockerfile' = JStr(out.v)
              /\ IF Truthy(baseImage)
                 THEN /\ calls' = calls \o <<"findUserStatement", "findBaseImage",
                                             "inspectDockerImage">>
                      /\ pc' = "inspectBase"
                      /\ UNCHANGED <<imageDetails, result, error, written>>
                 ELSE /\ calls' = calls \o <<"findUserStatement", "findBaseImage">>
                      /\ imageDetails' = Or(baseImage, Undefined)
                      /\ Return(DockerfileEffectiveUser(dockerfileUser, Or(baseImage, Undefined)),
                                DockerfileMetadata(Or(baseImage, Undefined),
                                                   experimentalImageMetadata),
                                Undefined)
    /\ UNCHANGED <<config, experimentalImageMetadata, dockerfilePath, dockerfileIsFile,
                   envFile, composeFiles, composeConfig>>
    /\ UNCHANGED labelVars

\* lines 174-180
AfterInspectBase ==
    /\ pc = "inspectBase"
    /\ \E out \in InspectOutcomes :
         IF ~out.ok
         THEN /\ Fail(CollaboratorError("inspectDockerImage"))
              /\ UNCHANGED <<calls, imageDetails, written>>
         ELSE LET details == Or(out.v, Undefined)
                  md == DockerfileMetadata(details, experimentalImageMetadata) IN
              /\ imageDetails' = details
              /\ calls' = calls \o WriteCalls(md.writes)
              /\ Return(DockerfileEffectiveUser(findUserStatement(dockerfile.s), details),
                        md, Undefined)
    /\ UNCHANGED <<config, experimentalImageMetadata, dockerfilePath, dockerfileIsFile,
                   dockerfile, envFile, composeFiles, composeConfig>>
    /\ UNCHANGED labelVars

\* lines 122-126, up to the first await
StartCompose ==
    /\ pc = "start"
    /\ ~isDockerFileConfig(config)
    /\ HasKey(config, <<"dockerComposeFile">>)
    /\ LET files == GetKey(config, <<"dockerComposeFile">>) IN
       IF IsArray(files) /\ Len(files.a) = 0
       THEN /\ calls' = calls \o <<"path.join", "isFile">>
            /\ pc' = "isFileEnv"
       ELSE /\ calls' = calls \o <<"path.join", "getDockerComposeFilePaths">>
            /\ pc' = "composeFilePaths"
    /\ UNCHANGED <<config, experimentalImageMetadata, dockerfilePath, dockerfileIsFile,
                   dockerfile, envFile, composeFiles, composeConfig, imageDetails, result,
                   error, written>>
    /\ UNCHANGED labelVars

\* line 125, after the await of isFile
AfterIsFileEnv ==
    /\ pc = "isFileEnv"
    /\ \E exists \in BOOLEAN :
         envFile' = IF Truthy(Await(cliHostIsFile(exists)))
                    THEN JStr(<<"/workspace/", ".env">>) ELSE Undefined
    /\ calls' = calls \o <<"getDockerComposeFilePaths">>
    /\ pc' = "composeFilePaths"
    /\ UNCHANGED <<config, experimentalImageMetadata, dockerfilePath, dockerfileIsFile,
                   dockerfile, composeFiles, composeConfig, imageDetails, result, error,
                   written>>
    /\ UNCHANGED labelVars

\* lines 126-129, up to the await of readDockerComposeConfig
AfterComposeFilePaths ==
    /\ pc = "composeFilePaths"
    /\ composeFiles' = getDockerComposeFilePaths(config)
    /\ calls' = calls \o <<"readDockerComposeConfig">>
    /\ pc' = "readCompose"
    /\ UNCHANGED <<config, experimentalImageMetadata, dockerfilePath, dockerfileIsFile,
                   dockerfile, envFile, composeConfig, imageDetails, result, error, written>>
    /\ UNCHANGED labelVars

\* lines 129-144, up to the await of readFile or of the inspection
AfterReadCompose ==
    /\ pc = "readCompose"
    /\ \E out \in ComposeOutcomes :
         IF ~out.ok
         THEN /\ Fail(CollaboratorError("readDockerComposeConfig"))
              /\ UNCHANGED <<calls, composeConfig>>
         ELSE /\ composeConfig' = out.v
              /\ IF ServiceMissing(out.v, config)
                 THEN /\ Fail(ServiceNotFound(GetKey(config, <<"service">>).s))
                      /\ UNCHANGED calls
                 ELSE LET composeService == ComposeService(out.v, config) IN
                      IF composeService.t # "obj"
                      THEN /\ Fail(TypeError)
                           /\ UNCHANGED calls
                      ELSE /\ UNCHANGED <<result, error>>
                           /\ IF Truthy(Member(getBuildInfoForService(composeService),
                                               <<"build">>))
                              THEN /\ calls' = calls \o <<"getBuildInfoForService",
                                                          "path.isAbsolute", "path.resolve",
                                                          "readFile">>
                                   /\ pc' = "readFile"
                              ELSE /\ calls' = calls \o <<"getBuildInfoForService",
                                                          "inspectDockerImage">>
                                   /\ pc' = "inspectImage"
    /\ UNCHANGED <<config, experimentalImageMetadata, dockerfilePath, dockerfileIsFile,
                   dockerfile, envFile, composeFiles, imageDetails, written>>
    /\ UNCHANGED labelVars

\* lines 146-148 and 153-154, up to the await of the inspection
StartImage ==
    /\ pc = "start"
    /\ ~isDockerFileConfig(config)
    /\ ~HasKey(config, <<"dockerComposeFile">>)
    /\ calls' = calls \o <<"inspectDockerImage">>
    /\ pc' = "inspectImage"
    /\ UNCHANGED <<config, experimentalImageMetadata, dockerfilePath, dockerfileIsFile,
                   dockerfile, envFile, composeFiles, composeConfig, imageDetails, result,
                   error, written>>
    /\ UNCHANGED labelVars

\* variant: a rejected inspection is tried once more
AfterInspectImageRetrying ==
    /\ pc = "inspectImage"
    /\ Count(calls, "inspectDockerImage") < 2
    /\ calls' = calls \o <<"inspectDockerImage">>
    /\ UNCHANGED <<config, experimentalImageMetadata, pc, dockerfilePath, dockerfileIsFile,
                   dockerfile, envFile, composeFiles, composeConfig, imageDetails, result,
                   error, written>>
    /\ UNCHANGED labelVars

\* lines 154-162
AfterInspectImage ==
    /\ pc = "inspectImage"
    /\ \E out \in InspectOutcomes :
         IF ~out.ok
         THEN /\ Fail(CollaboratorError("inspectDockerImage"))
              /\ UNCHANGED <<calls, imageDetails, written>>
         ELSE LET md == getImageMetadata(out.v, experimentalImageMetadata) IN
              /\ imageDetails' = out.v
              /\ calls' = calls \o WriteCalls(md.writes)
              /\ Return(ImageEffectiveUser(out.v), md, out.v)
    /\ UNCHANGED <<config, experimentalImageMetadata, dockerfilePath, dockerfileIsFile,
                   dockerfile, envFile, composeFiles, composeConfig>>
    /\ UNCHANGED labelVars

Next ==
    \/ StartDockerfile
    \/ AfterUriToWSLFsPath
    \/ AfterReadFile
    \/ AfterInspectBase
    \/ StartCompose
    \/ AfterIsFileEnv
    \/ AfterComposeFilePaths
    \/ AfterReadCompose
    \/ StartImage
    \/ AfterInspectImage

Spec == Init /\ [][Next]_vars

(***************************************************************************)
(* The label operations: the current layer is projected, the label         *)
(* instruction is produced, the image is built with it, and the metadata   *)
(* is read back from a container of that image.                            *)
(***************************************************************************)
InitLabel ==
    /\ config = JObj(<<>>)
    /\ experimentalImageMetadata = FALSE
    /\ pc = "off"
    /\ ResolverIdle
    /\ baseImageMetadata \in BaseMetadataPool
    /\ devContainerConfig \in ConfigPool
    /\ featuresConfig \in FeaturesConfigPool
    /\ labelFlag \in BOOLEAN
    /\ lpc = "start"
    /\ LabelIdle

GetDevcontainerMetadata ==
    /\ lpc = "start"
    /\ current' = getDevcontainerMetadata(devContainerConfig, featuresConfig)
    /\ lpc' = "projected"
    /\ UNCHANGED <<baseImageMetadata, devContainerConfig, featuresConfig, labelFlag,
                   labelMetadata, label, builtLabels, decoded>>
    /\ UNCHANGED resolverVars

GetDevcontainerMetadataLabel ==
    /\ lpc = "projected"
    /\ label' = getDevcontainerMetadataLabel(baseImageMetadata, devContainerConfig,
                                             featuresConfig, labelFlag)
    /\ labelMetadata' = IF labelFlag
                        THEN LabelMetadata(baseImageMetadata, devContainerConfig,
                                           featuresConfig)
                        ELSE <<>>
    /\ lpc' = "labelled"
    /\ UNCHANGED <<baseImageMetadata, devContainerConfig, featuresConfig, labelFlag,
                   current, builtLabels, decoded>>
    /\ UNCHANGED resolverVars

BuildImage ==
    /\ lpc = "labelled"
    /\ builtLabels' = BuiltLabels(label)
    /\ lpc' = "built"
    /\ UNCHANGED <<baseImageMetadata, devContainerConfig, featuresConfig, labelFlag,
                   current, labelMetadata, label, decoded>>
    /\ UNCHANGED resolverVars

ContainerDetails(labels) == JObj(<<Prop("Config", JObj(<<Prop("Labels", labels)>>))>>)

GetImageMetadataFromContainer ==
    /\ lpc = "built"
    /\ decoded' = getImageMetadataFromContainer(ContainerDetails(builtLabels),
                                                devContainerConfig, featuresConfig,
                                                labelFlag)
    /\ lpc' = "decoded"
    /\ UNCHANGED <<baseImageMetadata, devContainerConfig, featuresConfig, labelFlag,
                   current, labelMetadata, label, builtLabels>>
    /\ UNCHANGED resolverVars

NextLabel ==
    \/ GetDevcontainerMetadata
    \/ GetDevcontainerMetadataLabel
    \/ BuildImage
    \/ GetImageMetadataFromContainer

SpecLabel == InitLabel /\ [][NextLabel]_vars

(***************************************************************************)
(* Vocabulary of the properties.                                           *)
(***************************************************************************)
Contains(text, part) ==
    \E i \in 1..(Len(text) - Len(part) + 1) : SubSeq(text, i, i + Len(part) - 1) = part

Called(name) == \E i \in DOMAIN calls : calls[i] = name

\* the image's devcontainer.metadata label is a string
HasLabel(details) ==
    /\ details # Undefined
    /\ GetKey(GetKey(details, <<"Config">>), <<"Labels">>).t = "obj"
    /\ HasKey(GetKey(GetKey(details, <<"Config">>), <<"Labels">>), imageMetadataLabel)

LabelText(details) ==
    GetKey(GetKey(GetKey(details, <<"Config">>), <<"Labels">>), imageMetadataLabel).s

ConfiguredUser(details) == GetKey(GetKey(details, <<"Config">>), <<"User">>)

\* the entries a label text stands for: an array's elements, a single object,
\* nothing for anything else
EntriesOf(text) ==
    LET p == JSONparse(text) IN
    IF ~p.ok THEN <<>>
    ELSE IF p.v.t = "arr" THEN p.v.a
    ELSE IF p.v.t = "obj" THEN <<p.v>>
    ELSE <<>>

BaseEntries ==
    IF HasLabel(imageDetails) THEN EntriesOf(LabelText(imageDetails)) ELSE <<>>

\* the text is no JSON, or JSON for a number, string, boolean or null
NotEntries(text) ==
    LET p == JSONparse(text) IN ~p.ok \/ p.v.t \in {"num", "str", "bool", "null"}

\* equal as JSON data: objects by their fields, whatever the order
RECURSIVE FieldEqual(_, _)
FieldEqual(a, b) ==
    /\ a.t = b.t
    /\ IF a.t = "obj"
       THEN /\ Keys(a) = Keys(b)
            /\ Len(a.props) = Len(b.props)
            /\ \A k \in Keys(a) : FieldEqual(GetKey(a, k), GetKey(b, k))
       ELSE IF a.t = "arr"
       THEN /\ Len(a.a) = Len(b.a)
            /\ \A i \in DOMAIN a.a : FieldEqual(a.a[i], b.a[i])
       ELSE a = b

DecodeRan == pc = "done" /\ experimentalImageMetadata /\ HasLabel(imageDetails)

\* the configured service is a key of the services mapping read
ServiceDeclared ==
    /\ HasKey(composeConfig, <<"services">>)
    /\ GetKey(composeConfig, <<"services">>).t = "obj"
    /\ GetKey(config, <<"service">>).s \in Keys(GetKey(composeConfig, <<"services">>))

\* one Dockerfile read, one inspection, one Compose-config read at most
AtMostOnceEach ==
    /\ Count(calls, "readFile") <= 1
    /\ Count(calls, "inspectDockerImage") <= 1
    /\ Count(calls, "readDockerComposeConfig") <= 1

(***************************************************************************)
(* C1: for a Dockerfile-backed config whose Dockerfile path isFile reports *)
(* as missing, getImageBuildInfo fails with a ContainerError whose         *)
(* description holds the computed path, and neither a Dockerfile read nor  *)
(* an image inspection is attempted.                                       *)
(***************************************************************************)
C1_MissingDockerfileFails ==
    (isDockerFileConfig(config) /\ dockerfileIsFile = JBool(FALSE)) =>
        /\ pc = "failed"
        /\ error.type = "ContainerError"
        /\ Contains(error.text, dockerfilePath)
        /\ ~Called("readFile")
        /\ ~Called("inspectDockerImage")

(***************************************************************************)
(* C2: the resolved user is the Dockerfile's USER value if one is found,   *)
(* else the inspected base image's configured user if a base image was     *)
(* found and that user is non-empty, else "root"; for an image it is the   *)
(* inspected image's configured user if non-empty, else "root".            *)
(***************************************************************************)
C2_EffectiveUser ==
    pc = "done" =>
        IF dockerfile # Undefined
        THEN IF findUserStatement(dockerfile.s) # Undefined
             THEN result.user = findUserStatement(dockerfile.s)
             ELSE IF /\ findBaseImage(dockerfile.s) # Undefined
                     /\ ConfiguredUser(imageDetails) # JStr(<<>>)
             THEN result.user = ConfiguredUser(imageDetails)
             ELSE result.user = JStr(<<"root">>)
        ELSE IF ConfiguredUser(imageDetails) # JStr(<<>>)
             THEN result.user = ConfiguredUser(imageDetails)
             ELSE result.user = JStr(<<"root">>)

C2_Witness ==
    /\ pc = "done"
    /\ dockerfile = JStr(<<"FROM", Space, "debian">>)
    /\ ConfiguredUser(imageDetails) = JStr(<<"bob">>)
    /\ result.user = JStr(<<"bob">>)

(***************************************************************************)
(* C3, as claimed: for a Dockerfile-backed resolution with the flag        *)
(* enabled, the returned metadata is the base image's decoded entries      *)
(* followed by the entries projected from the current configuration and    *)
(* its features (whatever the features are).                               *)
(***************************************************************************)
C3_MergedWithCurrent ==
    (pc = "done" /\ isDockerFileConfig(config) /\ experimentalImageMetadata) =>
        \E fc \in FeaturesConfigPool :
            result.metadata = BaseEntries \o getDevcontainerMetadata(config, fc)

(***************************************************************************)
(* C3, amended: for a Dockerfile-backed resolution with the flag enabled,  *)
(* the returned metadata is exactly the entries decoded from the base      *)
(* image's label (none when no base image was found); the entries of the   *)
(* current configuration and features are not part of it.                  *)
(***************************************************************************)
C3_BaseEntriesOnly ==
    (pc = "done" /\ isDockerFileConfig(config) /\ experimentalImageMetadata) =>
        result.metadata = BaseEntries

C3_Witness ==
    /\ pc = "done"
    /\ isDockerFileConfig(config)
    /\ experimentalImageMetadata
    /\ Len(result.metadata) = 2
    /\ Len(BaseEntries) = 2

(***************************************************************************)
(* C4, as claimed: with the flag enabled, for every label value that is    *)
(* not parseable JSON or parses to a number, string, boolean or null, the  *)
(* decoding yields no entries, writes exactly one diagnostic and raises    *)
(* nothing: the resolution returns the resolved user.                      *)
(***************************************************************************)
C4_OneDiagnostic ==
    (/\ pc \in {"done", "failed"}
     /\ experimentalImageMetadata
     /\ HasLabel(imageDetails)
     /\ NotEntries(LabelText(imageDetails))) =>
        /\ pc = "done"
        /\ error = NoError
        /\ result.metadata = <<>>
        /\ Len(written) = 1
        /\ Count(calls, "output.write") = 1
        /\ result.user # Undefined

(***************************************************************************)
(* C4, amended: the same for every non-empty such label value; the empty   *)
(* label value yields no entries and no diagnostic.                        *)
(***************************************************************************)
C4_OneDiagnosticNonEmpty ==
    (/\ pc \in {"done", "failed"}
     /\ experimentalImageMetadata
     /\ HasLabel(imageDetails)
     /\ NotEntries(LabelText(imageDetails))) =>
        /\ pc = "done"
        /\ error = NoError
        /\ result.metadata = <<>>
        /\ Len(written) = (IF LabelText(imageDetails) = <<>> THEN 0 ELSE 1)
        /\ Count(calls, "output.write") = Len(written)
        /\ result.user # Undefined

C4_Witness ==
    /\ DecodeRan
    /\ LabelText(imageDetails) = <<"not json">>
    /\ Len(written) = 1
    /\ result.metadata = <<>>
    /\ result.user = JStr(<<"root">>)

(***************************************************************************)
(* C6: with the flag enabled, a label value that parses to an array        *)
(* decodes to exactly its elements in order, none validated or dropped,    *)
(* and one that parses to a plain object decodes to that object alone;     *)
(* neither writes a diagnostic.                                            *)
(***************************************************************************)
C6_ArrayAndObject ==
    (DecodeRan /\ JSONparse(LabelText(imageDetails)).ok) =>
        LET obj == JSONparse(LabelText(imageDetails)).v IN
        /\ obj.t = "arr" => (result.metadata = obj.a /\ written = <<>>)
        /\ obj.t = "obj" => (result.metadata = <<obj>> /\ written = <<>>)

C6_Witness ==
    /\ DecodeRan
    /\ LabelText(imageDetails) = <<"[", "1", ",", Quote, "x", Quote, ",", "null", "]">>
    /\ result.metadata = <<JNum(1), JStr(<<"x">>), JNull>>

(***************************************************************************)
(* C8: for a Compose-backed config whose service is no key of the services *)
(* mapping the Compose-config read returned (or that mapping is absent),   *)
(* getImageBuildInfo fails with an error naming the service, before any    *)
(* Dockerfile read or image inspection.                                    *)
(***************************************************************************)
C8_MissingServiceFails ==
    (composeConfig # Undefined /\ ~ServiceDeclared) =>
        /\ pc = "failed"
        /\ error.type = "Error"
        /\ Contains(error.text, GetKey(config, <<"service">>).s)
        /\ ~Called("readFile")
        /\ ~Called("inspectDockerImage")

C8_Witness ==
    /\ pc = "failed"
    /\ composeConfig # Undefined
    /\ HasKey(composeConfig, <<"services">>)
    /\ GetKey(composeConfig, <<"services">>).t = "obj"
    /\ ~ServiceDeclared
    /\ error.type = "Error"

(***************************************************************************)
(* C10, as claimed: a getImageBuildInfo call makes at most one Dockerfile  *)
(* read, one image inspection and one Compose-config read, and the image   *)
(* inspection, when made, is the call's last collaborator call.            *)
(***************************************************************************)
C10_InspectionLast ==
    /\ AtMostOnceEach
    /\ Called("inspectDockerImage") => calls[Len(calls)] = "inspectDockerImage"

(***************************************************************************)
(* C10, amended: at most one of each, and the image inspection, when made, *)
(* is followed by no collaborator call other than at most one diagnostic   *)
(* output.write (of the label decoding).                                   *)
(***************************************************************************)
C10_InspectionLastAwaited ==
    /\ AtMostOnceEach
    /\ Count(calls, "output.write") <= 1
    /\ \A i \in DOMAIN calls :
         calls[i] = "inspectDockerImage" =>
             \A j \in (i + 1)..Len(calls) : calls[j] = "output.write"

C10_Witness ==
    /\ pc = "done"
    /\ Count(calls, "readFile") = 1
    /\ Count(calls, "inspectDockerImage") = 1
    /\ Count(calls, "readDockerComposeConfig") = 1
    /\ calls[Len(calls)] = "output.write"

(***************************************************************************)
(* C5: the sequence getDevcontainerMetadataLabel encodes (flag enabled) is *)
(* the base entries followed by the current-layer entries: as long as both *)
(* together, each base entry in its place, each current entry after them   *)
(* in its order, nothing removed, reordered or deduplicated.               *)
(***************************************************************************)
C5_Concatenation ==
    (lpc \in {"labelled", "built", "decoded"} /\ labelFlag) =>
        /\ Len(labelMetadata) = Len(baseImageMetadata) + Len(current)
        /\ \A i \in DOMAIN baseImageMetadata : labelMetadata[i] = baseImageMetadata[i]
        /\ \A i \in DOMAIN current : labelMetadata[Len(baseImageMetadata) + i] = current[i]
        /\ label = LabelPrefix \o LabelValue(labelMetadata) \o <<Quote>>

C5_Witness ==
    /\ lpc = "labelled"
    /\ labelFlag
    /\ Len(baseImageMetadata) = 2
    /\ baseImageMetadata[1] = baseImageMetadata[2]
    /\ Len(current) = 2
    /\ Len(labelMetadata) = 4

(***************************************************************************)
(* C7: for a compose-backed configuration, the config entry that           *)
(* getDevcontainerMetadata produces (its last) never has the keys mounts,  *)
(* containerUser or containerEnv, and every key it has is in the compose   *)
(* allow-list and present on the configuration.                            *)
(***************************************************************************)
C7_ComposeAllowList ==
    (lpc # "start" /\ HasKey(devContainerConfig, <<"dockerComposeFile">>)) =>
        LET entry == current[Len(current)] IN
        /\ Keys(entry) \cap {<<"mounts">>, <<"containerUser">>, <<"containerEnv">>} = {}
        /\ \A k \in Keys(entry) :
             /\ \E i \in DOMAIN pickConfigProperties : pickConfigProperties[i] = k
             /\ HasKey(devContainerConfig, k)

C7_Witness ==
    /\ lpc = "projected"
    /\ HasKey(devContainerConfig, <<"dockerComposeFile">>)
    /\ HasKey(devContainerConfig, <<"mounts">>)
    /\ HasKey(devContainerConfig, <<"containerUser">>)
    /\ HasKey(devContainerConfig, <<"containerEnv">>)
    /\ Keys(current[Len(current)]) = {<<"remoteUser">>, <<"postCreateCommand">>}

(***************************************************************************)
(* C9: the value getDevcontainerMetadataLabel emits, with the build-syntax *)
(* escaping removed, decodes to a sequence field-equal to the encoded      *)
(* entries, in the same order, for one entry (an object) and for several   *)
(* (an array).                                                             *)
(***************************************************************************)
C9_RoundTrip ==
    (lpc = "decoded" /\ labelFlag) =>
        /\ decoded.writes = <<>>
        /\ Len(decoded.metadata) = Len(labelMetadata)
        /\ \A i \in DOMAIN labelMetadata :
             FieldEqual(decoded.metadata[i], labelMetadata[i])

C9_Witness ==
    /\ lpc = "decoded"
    /\ labelFlag
    /\ Len(labelMetadata) = 3
    /\ HasKey(labelMetadata[1], <<"remoteEnv">>)
    /\ GetKey(GetKey(labelMetadata[1], <<"remoteEnv">>), <<"P">>) = JStr(TextSlash)
    /\ decoded.metadata = labelMetadata

====
